---- MODULE Spec2Model ----
(***************************************************************************)
(* Model of the image describer: the description templater                 *)
(* generateDescription and the colour classifier getColorName of           *)
(* api/analyze-image.js, and the HTTP handler that calls them.             *)
(*                                                                         *)
(* Strings are modelled as sequences of tokens.  A template literal is the *)
(* sequence of its literal chunks and of its interpolated values, with a   *)
(* trailing ". " always a token of its own; the text of a text annotation  *)
(* is a sequence of characters.  Concatenation (+=) is \o.                 *)
(* A JavaScript object is a function from the names of the fields it has   *)
(* to their values, so a missing field is a name outside its DOMAIN.       *)
(* Scores (floats in the source) are counted in hundredths.                *)
(***************************************************************************)
EXTENDS Integers, Sequences, FiniteSets, TLC

VARIABLES
  visionResponse,  \* the annotation object handed to generateDescription (by reference)
  passed,          \* passed[i]: the object as it was when call i started
  returned,        \* returned[i]: the string call i returned
  threw,           \* threw[i]: call i ended in its catch block
  hpc,             \* position of the handler: idle, parsing, fetching, json, done
  req,             \* what the request and its environment turned out to be
  sent,            \* the responses sent on res, in order: [status, body]
  hook,            \* useImageAnalysis: [description, isLoading, error]
  requests,        \* the analyzeImage calls in the order they started, each with its position
  uploader         \* ImageUploader: [selectedImage, previewUrl, dragActive] and the FileReaders reading

tvars == <<visionResponse, passed, returned, threw>>
hvars == <<hpc, req, sent>>
cvars == <<hook, requests, uploader>>
vars == <<visionResponse, passed, returned, threw, hpc, req, sent, hook, requests, uploader>>

----------------------------------------------------------------------------
(* Bounds of the model *)

MaxCalls == 2

----------------------------------------------------------------------------
(* JavaScript values *)

Undefined == [undefined |-> TRUE]

NoFields == [f \in {} |-> f]

Has(o, f) == f \in DOMAIN o

\* o.f || []
OrEmpty(o, f) == IF Has(o, f) THEN o[f] ELSE <<>>

Abs(n) == IF n >= 0 THEN n ELSE -n

Min(a, b) == IF a <= b THEN a ELSE b

\* Array.prototype.slice(0, n)
slice(arr, n) == SubSeq(arr, 1, Min(n, Len(arr)))

\* Array.prototype.join over phrases that are token sequences
RECURSIVE join(_, _)
join(phrases, sep) ==
  IF Len(phrases) = 0 THEN <<>>
  ELSE IF Len(phrases) = 1 THEN phrases[1]
  ELSE phrases[1] \o <<sep>> \o join(Tail(phrases), sep)

\* String.prototype.toLowerCase on the names the inputs are drawn from
toLowerCase(s) ==
  CASE s = "Dog" -> "dog"
    [] s = "Cat" -> "cat"
    [] s = "Outdoor" -> "outdoor"
    [] s = "Portrait" -> "portrait"
    [] s = "Sky" -> "sky"
    [] OTHER -> s

----------------------------------------------------------------------------
(* getColorName *)

\* the classifier with the gold test moved in front of the orange test
getColorNameGoldFirst(red, green, blue) ==
  IF red > 220 /\ green > 220 /\ blue > 220 THEN "white"
  ELSE IF red < 30 /\ green < 30 /\ blue < 30 THEN "black"
  ELSE IF red > 200 /\ green < 70 /\ blue < 70 THEN "red"
  ELSE IF red < 70 /\ green > 200 /\ blue < 70 THEN "green"
  ELSE IF red < 70 /\ green < 70 /\ blue > 200 THEN "blue"
  ELSE IF red > 200 /\ green > 200 /\ blue < 70 THEN "yellow"
  ELSE IF red > 200 /\ green < 70 /\ blue > 200 THEN "magenta"
  ELSE IF red < 70 /\ green > 200 /\ blue > 200 THEN "cyan"
  ELSE IF red > 150 /\ green > 150 /\ blue < 70 THEN "gold"
  ELSE IF red > 200 /\ green > 120 /\ green < 180 /\ blue < 70 THEN "orange"
  ELSE IF red > 120 /\ red < 200 /\ green < 70 /\ blue > 200 THEN "purple"
  ELSE IF red > 70 /\ red < 120 /\ green > 200 /\ blue < 70 THEN "lime"
  ELSE IF red < 70 /\ green > 130 /\ green < 200 /\ blue > 200 THEN "teal"
  ELSE IF red > 200 /\ green < 70 /\ blue > 130 /\ blue < 200 THEN "pink"
  ELSE IF Abs(red - green) < 30 /\ Abs(red - blue) < 30 /\ Abs(green - blue) < 30
    THEN (IF red < 80 THEN "dark gray"
          ELSE IF red < 150 THEN "gray"
          ELSE "light gray")
  ELSE IF red > 130 /\ red < 200 /\ green > 70 /\ green < 130 /\ blue < 70
    THEN "brown"
  ELSE "mixed"

getColorName(red, green, blue) ==
  IF red > 220 /\ green > 220 /\ blue > 220 THEN "white"
  ELSE IF red < 30 /\ green < 30 /\ blue < 30 THEN "black"
  ELSE IF red > 200 /\ green < 70 /\ blue < 70 THEN "red"
  ELSE IF red < 70 /\ green > 200 /\ blue < 70 THEN "green"
  ELSE IF red < 70 /\ green < 70 /\ blue > 200 THEN "blue"
  ELSE IF red > 200 /\ green > 200 /\ blue < 70 THEN "yellow"
  ELSE IF red > 200 /\ green < 70 /\ blue > 200 THEN "magenta"
  ELSE IF red < 70 /\ green > 200 /\ blue > 200 THEN "cyan"
  ELSE IF red > 200 /\ green > 120 /\ green < 180 /\ blue < 70 THEN "orange"
  ELSE IF red > 120 /\ red < 200 /\ green < 70 /\ blue > 200 THEN "purple"
  ELSE IF red > 70 /\ red < 120 /\ green > 200 /\ blue < 70 THEN "lime"
  ELSE IF red < 70 /\ green > 130 /\ green < 200 /\ blue > 200 THEN "teal"
  ELSE IF red > 200 /\ green < 70 /\ blue > 130 /\ blue < 200 THEN "pink"
  ELSE IF red > 150 /\ green > 150 /\ blue < 70 THEN "gold"
  ELSE IF Abs(red - green) < 30 /\ Abs(red - blue) < 30 /\ Abs(green - blue) < 30
    THEN (IF red < 80 THEN "dark gray"
          ELSE IF red < 150 THEN "gray"
          ELSE "light gray")
  ELSE IF red > 130 /\ red < 200 /\ green > 70 /\ green < 130 /\ blue < 70
    THEN "brown"
  ELSE "mixed"

----------------------------------------------------------------------------
(* generateDescription.  Its body runs on a record st: the description     *)
(* built so far, whether an exception was thrown, and the argument object  *)
(* (which the body can change in place).                                   *)

begin(obj) == [description |-> <<>>, thrown |-> FALSE, obj |-> obj]

throw(st) == [st EXCEPT !.thrown = TRUE]

emit(st, fragment) == [st EXCEPT !.description = @ \o fragment]

ContextWords ==
  {"indoor", "outdoor", "city", "rural", "landscape", "portrait", "closeup", "macro"}

\* lines 160-167: the labels, the contexts among them, the scene sentence
sceneContext(st) ==
  IF st.thrown THEN st
  ELSE IF st.obj = Undefined THEN throw(st)
  ELSE LET labels == OrEmpty(st.obj, "labelAnnotations") IN
    IF \E i \in DOMAIN labels : ~Has(labels[i], "description") THEN throw(st)
    ELSE LET contexts ==
               SelectSeq(labels, LAMBDA l : toLowerCase(l.description) \in ContextWords)
         IN IF Len(contexts) > 0
              THEN emit(st, <<"This appears to be an ",
                              toLowerCase(contexts[1].description), " image", ". ">>)
              ELSE st

\* lines 170-173
mainSubjects(st) ==
  IF st.thrown THEN st
  ELSE LET labels == OrEmpty(st.obj, "labelAnnotations") IN
    IF Len(labels) > 0
      THEN LET first == slice(labels, 4)
               names == [i \in DOMAIN first |-> <<first[i].description>>]
           IN emit(st, <<"The image shows ">> \o join(names, ", ") \o <<". ">>)
      ELSE st

\* lines 176-185
landmarkSentence(st) ==
  IF st.thrown THEN st
  ELSE LET landmarks == OrEmpty(st.obj, "landmarkAnnotations") IN
    IF Len(landmarks) > 0
      THEN LET lm == landmarks[1]
               name == IF Has(lm, "description") THEN lm.description ELSE "undefined"
               s1 == emit(st, <<"The image features ", name>>)
           IN IF Has(lm, "locations") /\ Len(lm.locations) > 0
                THEN IF ~Has(lm.locations[1], "latLng") THEN throw(s1)
                     ELSE LET lat == lm.locations[1].latLng.latitude
                              lng == lm.locations[1].latLng.longitude
                          IN emit(s1, <<", located at approximately ",
                                        ToString(Abs(lat)), "° ",
                                        IF lat >= 0 THEN "North" ELSE "South", ", ",
                                        ToString(Abs(lng)), "° ",
                                        IF lng >= 0 THEN "East" ELSE "West", ". ">>)
                ELSE emit(s1, <<". ">>)
      ELSE st

\* a likelihood test that lets POSSIBLE count as well
isAtLeastPossible(face, field) ==
  Has(face, field) /\ face[field] \in {"VERY_LIKELY", "LIKELY", "POSSIBLE"}

\* lines 193-199: is this face's likelihood for the emotion LIKELY or VERY_LIKELY
isLikely(face, field) ==
  Has(face, field) /\ face[field] \in {"VERY_LIKELY", "LIKELY"}

countLikely(faces, field) ==
  Cardinality({i \in DOMAIN faces : isLikely(faces[i], field)})

\* lines 193-199: Object.entries(emotionCounts), in the order of the literal
emotionCounts(faces) ==
  << <<"joy", countLikely(faces, "joyLikelihood")>>,
     <<"sorrow", countLikely(faces, "sorrowLikelihood")>>,
     <<"anger", countLikely(faces, "angerLikelihood")>>,
     <<"surprise", countLikely(faces, "surpriseLikelihood")>> >>

\* line 203
emotionPhrase(entry) ==
  <<ToString(entry[2]), " ", IF entry[2] = 1 THEN "appears" ELSE "appear", " to be ",
    IF entry[1] = "joy" THEN "happy" ELSE entry[1]>>

\* line 190
countSentence(n) ==
  <<"There ", IF n = 1 THEN "is" ELSE "are", " ", ToString(n), " ",
    IF n = 1 THEN "person" ELSE "people", " in the image", ". ">>

\* lines 188-208
faceSentences(st) ==
  IF st.thrown THEN st
  ELSE LET faceAnnotations == OrEmpty(st.obj, "faceAnnotations") IN
    IF Len(faceAnnotations) > 0
      THEN LET s1 == emit(st, countSentence(Len(faceAnnotations)))
               positive == SelectSeq(emotionCounts(faceAnnotations), LAMBDA e : e[2] > 0)
               emotions == [i \in DOMAIN positive |-> emotionPhrase(positive[i])]
           IN IF Len(emotions) > 0
                THEN emit(s1, <<"Of these, ">> \o join(emotions, ", ") \o <<". ">>)
                ELSE s1
      ELSE st

\* lines 214-217: the keys of objectCounts, in the order they were first set
RECURSIVE objectNames(_)
objectNames(objects) ==
  IF Len(objects) = 0 THEN <<>>
  ELSE LET front == objectNames(SubSeq(objects, 1, Len(objects) - 1))
           name == objects[Len(objects)].name
       IN IF \E i \in DOMAIN front : front[i] = name THEN front ELSE Append(front, name)

\* lines 214-217: objectCounts[name]
objectCount(objects, name) ==
  Cardinality({i \in DOMAIN objects : objects[i].name = name})

\* line 220
objectPhrase(name, count) ==
  IF count > 1 THEN <<ToString(count), " ", toLowerCase(name), "s">>
  ELSE <<"a ", toLowerCase(name)>>

\* lines 219-221
objectDescriptions(objects) ==
  LET names == objectNames(objects)
  IN [i \in DOMAIN names |-> objectPhrase(names[i], objectCount(objects, names[i]))]

\* lines 211-232
objectSentence(st) ==
  IF st.thrown THEN st
  ELSE LET objects == OrEmpty(st.obj, "localizedObjectAnnotations") IN
    IF Len(objects) > 0 /\ Len(objectDescriptions(objects)) > 0
      THEN emit(st, <<"The image contains ">>
                    \o join(objectDescriptions(objects), ", ") \o <<". ">>)
      ELSE st

\* lines 235-239
logoSentence(st) ==
  IF st.thrown THEN st
  ELSE LET logos == OrEmpty(st.obj, "logoAnnotations") IN
    IF Len(logos) > 0
      THEN LET logoNames == [i \in DOMAIN logos |-> <<logos[i].description>>]
           IN emit(st, <<"The image contains the following ",
                         IF Len(logos) = 1 THEN "logo" ELSE "logos", ": ">>
                       \o join(logoNames, ", ") \o <<". ">>)
      ELSE st

\* line 242: visionResponse.imagePropertiesAnnotation?.dominantColors?.colors
hasColors(obj) ==
  /\ Has(obj, "imagePropertiesAnnotation")
  /\ Has(obj.imagePropertiesAnnotation, "dominantColors")
  /\ Has(obj.imagePropertiesAnnotation.dominantColors, "colors")

colorsOf(obj) ==
  IF hasColors(obj) THEN obj.imagePropertiesAnnotation.dominantColors.colors ELSE <<>>

\* a sort that is not stable: c goes in front of the scores equal to its own
insertBeforeEqual(sorted, c) ==
  LET k == Cardinality({i \in DOMAIN sorted : sorted[i].score > c.score})
  IN SubSeq(sorted, 1, k) \o <<c>> \o SubSeq(sorted, k + 1, Len(sorted))

\* line 244: one step of the stable sort, c goes behind every score >= its own
insertByScore(sorted, c) ==
  LET k == Cardinality({i \in DOMAIN sorted : sorted[i].score >= c.score})
  IN SubSeq(sorted, 1, k) \o <<c>> \o SubSeq(sorted, k + 1, Len(sorted))

\* line 244: Array.prototype.sort((a, b) => b.score - a.score), which is stable
RECURSIVE sortByScore(_)
sortByScore(colors) ==
  IF Len(colors) = 0 THEN <<>>
  ELSE insertByScore(sortByScore(SubSeq(colors, 1, Len(colors) - 1)), colors[Len(colors)])

\* line 244: sort works in place, on the array the argument object holds
sortInPlace(obj) ==
  [obj EXCEPT !.imagePropertiesAnnotation.dominantColors.colors = sortByScore(@)]

\* lines 242-250
colorSentence(st) ==
  IF st.thrown THEN st
  ELSE LET colorInfo == colorsOf(st.obj) IN
    IF Len(colorInfo) > 0
      THEN LET s1 == [st EXCEPT !.obj = sortInPlace(st.obj)]
               sortedColors == slice(colorsOf(s1.obj), 3)
           IN IF \E i \in DOMAIN sortedColors : ~Has(sortedColors[i], "color")
                THEN throw(s1)
                ELSE LET colorNames ==
                           [i \in DOMAIN sortedColors |->
                              <<getColorName(sortedColors[i].color.red,
                                             sortedColors[i].color.green,
                                             sortedColors[i].color.blue)>>]
                     IN emit(s1, <<"The dominant colors in the image are ">>
                                 \o join(colorNames, ", ") \o <<". ">>)
      ELSE st

TextLimit == 100

WhiteSpace == {" ", "\t", "\n", "\r"}

\* a replace without the g flag: only the first newline becomes a space
replaceFirstNewline(chars) ==
  [i \in DOMAIN chars |->
     IF chars[i] = "\n" /\ \A j \in 1..(i - 1) : chars[j] # "\n" THEN " " ELSE chars[i]]

\* line 255: String.prototype.replace(/\n/g, ' ')
replaceNewlines(chars) ==
  [i \in DOMAIN chars |-> IF chars[i] = "\n" THEN " " ELSE chars[i]]

\* line 255: String.prototype.trim
RECURSIVE trimStart(_)
trimStart(chars) ==
  IF Len(chars) > 0 /\ chars[1] \in WhiteSpace THEN trimStart(Tail(chars)) ELSE chars

RECURSIVE trimEnd(_)
trimEnd(chars) ==
  IF Len(chars) > 0 /\ chars[Len(chars)] \in WhiteSpace
    THEN trimEnd(SubSeq(chars, 1, Len(chars) - 1))
    ELSE chars

trim(chars) == trimEnd(trimStart(chars))

\* line 258: String.prototype.substring(0, n)
substring(chars, n) == SubSeq(chars, 1, Min(n, Len(chars)))

\* lines 257-261: what goes between the quotation marks
excerptOf(text) ==
  IF Len(text) > TextLimit THEN substring(text, TextLimit) \o <<".", ".", ".">> ELSE text

\* lines 253-263
textSentence(st) ==
  IF st.thrown THEN st
  ELSE LET textAnnotations == OrEmpty(st.obj, "textAnnotations") IN
    IF /\ Len(textAnnotations) > 0
       /\ Has(textAnnotations[1], "description")
       /\ Len(textAnnotations[1].description) > 0
      THEN LET text == trim(replaceNewlines(textAnnotations[1].description))
           IN IF Len(text) > 0
                THEN emit(st, <<IF Len(text) > TextLimit
                                  THEN "The image contains text including: "
                                  ELSE "The image contains text that reads: ", "\"">>
                              \o excerptOf(text) \o <<"\"", ". ">>)
                ELSE st
      ELSE st

\* lines 266-278
webSentence(st) ==
  IF st.thrown THEN st
  ELSE LET webDetection == IF Has(st.obj, "webDetection") THEN st.obj.webDetection
                           ELSE NoFields
           webEntities == OrEmpty(webDetection, "webEntities")
       IN IF Len(webEntities) > 0
            THEN LET scored == SelectSeq(webEntities,
                                         LAMBDA e : Has(e, "score") /\ e.score > 50)
                     top == slice(scored, 3)
                     topEntities == [i \in DOMAIN top |-> <<top[i].description>>]
                 IN IF Len(topEntities) > 0
                      THEN emit(st, <<"The image is associated with ">>
                                    \o join(topEntities, ", ") \o <<". ">>)
                      ELSE st
            ELSE st

\* lines 281-288
qualitySentence(st) ==
  IF st.thrown THEN st
  ELSE IF Has(st.obj, "imageQualityAnnotation")
    THEN LET a == st.obj.imageQualityAnnotation IN
      IF Has(a, "quality") /\ a.quality > 80
        THEN emit(st, <<"This is a high-quality image", ". ">>)
      ELSE IF Has(a, "quality") /\ a.quality < 40
        THEN emit(st, <<"The image quality is relatively low", ". ">>)
      ELSE st
    ELSE st

NoDataFallback ==
  <<"This image could not be analyzed in detail. Please try uploading a clearer image.">>

ErrorFallback ==
  <<"An image containing various elements. The system couldn't generate a more detailed description.">>

\* the fallback of lines 291-293 left out
orNothing(description) == description

\* lines 290-295
orFallback(description) ==
  IF description = <<>> THEN NoDataFallback ELSE description

\* a catch block that hands back what was built before the exception
catchPartial(st) == st.description

\* lines 296-300
catchBlock(st) == ErrorFallback

\* the logo statements moved in front of the object statements
tryBlockLogosFirst(obj) ==
  qualitySentence(webSentence(textSentence(colorSentence(objectSentence(
    logoSentence(faceSentences(landmarkSentence(mainSubjects(sceneContext(
      begin(obj)))))))))))

\* lines 157-288: the statements of the try block, in order
tryBlock(obj) ==
  qualitySentence(webSentence(textSentence(colorSentence(logoSentence(
    objectSentence(faceSentences(landmarkSentence(mainSubjects(sceneContext(
      begin(obj)))))))))))

\* lines 155-301: what the call returns, whether it threw inside, and the
\* argument object as the call leaves it
generateDescription(obj) ==
  LET st == tryBlock(obj)
  IN [value |-> IF st.thrown THEN catchBlock(st) ELSE orFallback(st.description),
      threw |-> st.thrown,
      obj |-> st.obj]

----------------------------------------------------------------------------
(* The annotation objects the calls are made on: every combination of a    *)
(* few shapes of each section of the vision response, and undefined.       *)

Label(d, s) == [description |-> d, score |-> s]

LabelShapes ==
  { NoFields,
    [labelAnnotations |-> <<Label("cat", 90), Label("Outdoor", 80), Label("dog", 70),
                            Label("Sky", 60), Label("city", 50)>>],
    [labelAnnotations |-> <<Label("cat", 90), [score |-> 80]>>] }

LandmarkShapes ==
  { NoFields,
    [landmarkAnnotations |->
       << [description |-> "Sydney Opera House",
           locations |-> << [latLng |-> [latitude |-> -33, longitude |-> 151]] >>] >>],
    [landmarkAnnotations |->
       << [description |-> "Eiffel Tower", locations |-> << NoFields >>] >>] }

Face(j, s, a, u) ==
  [joyLikelihood |-> j, sorrowLikelihood |-> s, angerLikelihood |-> a,
   surpriseLikelihood |-> u]

FaceShapes ==
  { NoFields,
    [faceAnnotations |->
       << Face("LIKELY", "VERY_UNLIKELY", "VERY_UNLIKELY", "VERY_UNLIKELY"),
          Face("VERY_LIKELY", "LIKELY", "POSSIBLE", "UNLIKELY") >>] }

ObjectShapes ==
  { NoFields,
    [localizedObjectAnnotations |-> <<[name |-> "Dog"], [name |-> "Cat"], [name |-> "Dog"]>>] }

LogoShapes ==
  { NoFields,
    [logoAnnotations |-> <<[description |-> "Acme"], [description |-> "Globex"]>>] }

Color(r, g, b, s) == [color |-> [red |-> r, green |-> g, blue |-> b], score |-> s]

Colors(cs) == [imagePropertiesAnnotation |-> [dominantColors |-> [colors |-> cs]]]

ColorShapes ==
  { NoFields,
    Colors(<<Color(0, 0, 0, 10), Color(255, 0, 0, 40), Color(0, 0, 255, 40),
             Color(255, 255, 255, 30)>>),
    Colors(<<Color(255, 0, 0, 20), [score |-> 60]>>),
    Colors(<<Color(250, 250, 250, 90), [score |-> 5], Color(0, 0, 0, 80),
             Color(255, 0, 0, 70)>>) }

TextShapes ==
  { NoFields,
    [textAnnotations |-> <<[description |-> <<"S", "T", "O", "P", "\n", "G", "O", "\n">>],
                           [description |-> <<"S", "T", "O", "P">>]>>],
    [textAnnotations |-> <<[description |-> <<" ", "\n">>]>>] }

Entity(d, s) == [description |-> d, score |-> s]

WebShapes ==
  { NoFields,
    [webDetection |-> [webEntities |-> <<Entity("pet", 50), Entity("animal", 30)>>]],
    [webDetection |-> [webEntities |-> <<Entity("pet", 90), Entity("animal", 30),
                                         Entity("mammal", 70), Entity("fur", 60),
                                         Entity("tail", 55)>>]] }

QualityShapes ==
  { NoFields,
    [imageQualityAnnotation |-> [quality |-> 90]],
    [imageQualityAnnotation |-> [quality |-> 50]],
    [imageQualityAnnotation |-> [quality |-> 30]] }

Responses ==
  { l @@ m @@ f @@ o @@ g @@ c @@ t @@ w @@ q :
      l \in LabelShapes, m \in LandmarkShapes, f \in FaceShapes, o \in ObjectShapes,
      g \in LogoShapes, c \in ColorShapes, t \in TextShapes, w \in WebShapes,
      q \in QualityShapes }

----------------------------------------------------------------------------
(* The handler's request, before it is received *)

NoRequest == [method |-> "none"]

HandlerIdle ==
  /\ hpc = "idle"
  /\ req = NoRequest
  /\ sent = <<>>

----------------------------------------------------------------------------
(* The client before anything is selected *)

null == "null"

ClientIdle ==
  /\ hook = [description |-> "", isLoading |-> FALSE, error |-> null]
  /\ requests = <<>>
  /\ uploader = [selectedImage |-> null, previewUrl |-> null, dragActive |-> FALSE,
                 reading |-> <<>>]

----------------------------------------------------------------------------
(* Calls of generateDescription on one annotation object *)

NoCalls ==
  /\ passed = <<>>
  /\ returned = <<>>
  /\ threw = <<>>

Init ==
  /\ visionResponse \in Responses \cup {Undefined}
  /\ NoCalls
  /\ HandlerIdle
  /\ ClientIdle

\* description = generateDescription(response), lines 140 and 155-301
Call ==
  /\ Len(returned) < MaxCalls
  /\ LET r == generateDescription(visionResponse)
     IN /\ passed' = Append(passed, visionResponse)
        /\ returned' = Append(returned, r.value)
        /\ threw' = Append(threw, r.threw)
        /\ visionResponse' = r.obj
  /\ UNCHANGED hvars
  /\ UNCHANGED cvars

Next == Call

Spec == Init /\ [][Next]_vars

----------------------------------------------------------------------------
(* Properties of generateDescription *)

\* The argument object as call i left it
ArgumentAfter(i) == IF i < Len(passed) THEN passed[i + 1] ELSE visionResponse

\* The place of colors[i] once the colors are ordered by descending score,
\* equal scores in the order given
RankByScore(colors, i) ==
  1 + Cardinality({j \in DOMAIN colors :
                     \/ colors[j].score > colors[i].score
                     \/ colors[j].score = colors[i].score /\ j < i})

\* The inputs on which composing the fragments raises an exception: no object
\* at all, a label without description, a first landmark whose first location
\* has no latLng, one of the three highest-scored colors without color
Malformed(obj) ==
  \/ obj = Undefined
  \/ \E i \in DOMAIN OrEmpty(obj, "labelAnnotations") :
       ~Has(obj.labelAnnotations[i], "description")
  \/ /\ Len(OrEmpty(obj, "landmarkAnnotations")) > 0
     /\ Len(OrEmpty(obj.landmarkAnnotations[1], "locations")) > 0
     /\ ~Has(obj.landmarkAnnotations[1].locations[1], "latLng")
  \/ \E i \in DOMAIN colorsOf(obj) :
       ~Has(colorsOf(obj)[i], "color") /\ RankByScore(colorsOf(obj), i) <= 3

\* C1: every call of generateDescription returns; a call whose input raises an
\* exception while the fragments are composed ends in the catch block and
\* returns exactly the error fallback, nothing of what was built before it;
\* a call on a well-formed input does not end in the catch block.
C1_AllOrFallback ==
  /\ Len(returned) = Len(passed)
  /\ \A i \in DOMAIN returned :
       /\ threw[i] <=> Malformed(passed[i])
       /\ threw[i] => returned[i] = ErrorFallback
       /\ ~threw[i] => returned[i] # ErrorFallback

\* A call returned the error fallback although a label fragment had been
\* built before the landmark's location without latLng raised the exception
C1_Witness ==
  \E i \in DOMAIN returned :
    /\ threw[i]
    /\ returned[i] = ErrorFallback
    /\ passed[i] # Undefined
    /\ Len(OrEmpty(passed[i], "labelAnnotations")) > 0
    /\ \A k \in DOMAIN passed[i].labelAnnotations :
         Has(passed[i].labelAnnotations[k], "description")
    /\ Len(OrEmpty(passed[i], "landmarkAnnotations")) > 0
    /\ Len(OrEmpty(passed[i].landmarkAnnotations[1], "locations")) > 0
    /\ ~Has(passed[i].landmarkAnnotations[1].locations[1], "latLng")

\* The fragment each statement group of the try block contributes on its own,
\* in the order of the source
Fragments(obj) ==
  << sceneContext(begin(obj)).description,
     mainSubjects(begin(obj)).description,
     landmarkSentence(begin(obj)).description,
     faceSentences(begin(obj)).description,
     objectSentence(begin(obj)).description,
     logoSentence(begin(obj)).description,
     colorSentence(begin(obj)).description,
     textSentence(begin(obj)).description,
     webSentence(begin(obj)).description,
     qualitySentence(begin(obj)).description >>

RECURSIVE Concat(_)
Concat(seqs) == IF Len(seqs) = 0 THEN <<>> ELSE seqs[1] \o Concat(Tail(seqs))

NoFragment(obj) == \A k \in DOMAIN Fragments(obj) : Fragments(obj)[k] = <<>>

\* C2: no call returns the empty string; a call that completes without an
\* exception returns the no-data fallback when no fragment was emitted, and
\* the no-data fallback is returned only by such a call.
C2_NeverEmpty ==
  \A i \in DOMAIN returned :
    /\ returned[i] # <<>>
    /\ \A k \in DOMAIN returned[i] : returned[i][k] # ""
    /\ (~threw[i] /\ NoFragment(passed[i])) => returned[i] = NoDataFallback
    /\ returned[i] = NoDataFallback => (~threw[i] /\ NoFragment(passed[i]))

\* A call on an object whose web entities all score <= 0.5 and whose quality
\* is between 0.4 and 0.8 returned the no-data fallback
C2_Witness ==
  \E i \in DOMAIN returned :
    /\ returned[i] = NoDataFallback
    /\ Has(passed[i], "webDetection")
    /\ Len(passed[i].webDetection.webEntities) > 0
    /\ Has(passed[i], "imageQualityAnnotation")
    /\ passed[i].imageQualityAnnotation.quality = 50

\* C3: a call leaves its argument object as it was when the call started.
C3_InputUnchanged ==
  \A i \in DOMAIN passed : ArgumentAfter(i) = passed[i]

\* C4: two calls in a row on the same annotation object return the same string.
C4_Idempotent ==
  \A i \in DOMAIN returned : \A j \in DOMAIN returned : returned[i] = returned[j]

\* Two calls were made on an object whose colors were not ordered by score and
\* held two colors of equal score, and the first call changed their order
C4_Witness ==
  /\ Len(returned) >= 2
  /\ ~threw[1]
  /\ LET colors == colorsOf(passed[1])
     IN /\ \E a \in DOMAIN colors : \E b \in DOMAIN colors :
             a < b /\ colors[a].score < colors[b].score
        /\ \E a \in DOMAIN colors : \E b \in DOMAIN colors :
             a # b /\ colors[a].score = colors[b].score
  /\ passed[2] # passed[1]

\* The fields of the vision response, each with the places of its fragments
\* in Fragments
Sections ==
  << [field |-> "labelAnnotations", fragments |-> {1, 2}],
     [field |-> "landmarkAnnotations", fragments |-> {3}],
     [field |-> "faceAnnotations", fragments |-> {4}],
     [field |-> "localizedObjectAnnotations", fragments |-> {5}],
     [field |-> "logoAnnotations", fragments |-> {6}],
     [field |-> "imagePropertiesAnnotation", fragments |-> {7}],
     [field |-> "textAnnotations", fragments |-> {8}],
     [field |-> "webDetection", fragments |-> {9}],
     [field |-> "imageQualityAnnotation", fragments |-> {10}] >>

\* The object with one section removed
Without(obj, field) == [f \in DOMAIN obj \ {field} |-> obj[f]]

\* The object with one section present and empty
Emptied(obj, field) ==
  (field :> (CASE field = "imagePropertiesAnnotation" -> [dominantColors |-> [colors |-> <<>>]]
               [] field = "webDetection" -> [webEntities |-> <<>>]
               [] field = "imageQualityAnnotation" -> NoFields
               [] OTHER -> <<>>))
  @@ Without(obj, field)

\* The fragments except those at the places in skipped, concatenated
ConcatExcept(fragments, skipped) ==
  Concat([k \in DOMAIN fragments |-> IF k \in skipped THEN <<>> ELSE fragments[k]])

EndsWithStop(fragment) ==
  fragment # <<>> => fragment[Len(fragment)] = ". "

\* C5: on an input that raises no exception, the description is the
\* concatenation of the fragments in the order scene context, main subjects,
\* landmarks, faces, objects, logos, colors, text, web entities, quality;
\* every emitted fragment ends with ". "; and with one section removed or
\* emptied the description is the concatenation of the same fragments
\* without that section's.
C5_OrderedIndependent ==
  \A i \in DOMAIN returned :
    ~threw[i] =>
      LET fragments == Fragments(passed[i])
      IN /\ returned[i] = orFallback(ConcatExcept(fragments, {}))
         /\ \A k \in DOMAIN fragments : EndsWithStop(fragments[k])
         /\ \A n \in DOMAIN Sections :
              LET rest == orFallback(ConcatExcept(fragments, Sections[n].fragments))
              IN /\ generateDescription(Without(passed[i], Sections[n].field)).value = rest
                 /\ generateDescription(Emptied(passed[i], Sections[n].field)).value = rest

\* A call on an object with every section present emitted all ten fragments
C5_Witness ==
  \E i \in DOMAIN returned :
    /\ ~threw[i]
    /\ \A n \in DOMAIN Sections : Has(passed[i], Sections[n].field)
    /\ \A k \in DOMAIN Fragments(passed[i]) : Fragments(passed[i])[k] # <<>>
    /\ returned[i] = Concat(Fragments(passed[i]))

----------------------------------------------------------------------------
(* getColorName on its own: calls on objects that hold one color, its        *)
(* channels drawn from the values on both sides of every threshold of the   *)
(* classifier and from the examples of the specification.                   *)

ChannelValues ==
  { 0, 10, 29, 30, 40, 69, 70, 71, 79, 80, 100, 120, 121, 128, 129, 130, 131,
    149, 150, 151, 160, 179, 180, 199, 200, 201, 220, 221, 250, 255 }

InitColor ==
  /\ visionResponse \in { Colors(<<Color(r, g, b, 100)>>) :
                            r \in ChannelValues, g \in ChannelValues, b \in ChannelValues }
  /\ NoCalls
  /\ HandlerIdle
  /\ ClientIdle

SpecColor == InitColor /\ [][Next]_vars

\* The rules of the classifier as the specification lists them, in order
RuleNames ==
  << "white", "black", "red", "green", "blue", "yellow", "magenta", "cyan", "orange",
     "purple", "lime", "teal", "pink", "gold", "dark gray", "gray", "light gray",
     "brown" >>

Close(r, g, b) == Abs(r - g) < 30 /\ Abs(r - b) < 30 /\ Abs(g - b) < 30

RuleMatches(n, r, g, b) ==
  CASE n = 1 -> r > 220 /\ g > 220 /\ b > 220
    [] n = 2 -> r < 30 /\ g < 30 /\ b < 30
    [] n = 3 -> r > 200 /\ g < 70 /\ b < 70
    [] n = 4 -> r < 70 /\ g > 200 /\ b < 70
    [] n = 5 -> r < 70 /\ g < 70 /\ b > 200
    [] n = 6 -> r > 200 /\ g > 200 /\ b < 70
    [] n = 7 -> r > 200 /\ g < 70 /\ b > 200
    [] n = 8 -> r < 70 /\ g > 200 /\ b > 200
    [] n = 9 -> r > 200 /\ 120 < g /\ g < 180 /\ b < 70
    [] n = 10 -> 120 < r /\ r < 200 /\ g < 70 /\ b > 200
    [] n = 11 -> 70 < r /\ r < 120 /\ g > 200 /\ b < 70
    [] n = 12 -> r < 70 /\ 130 < g /\ g < 200 /\ b > 200
    [] n = 13 -> r > 200 /\ g < 70 /\ 130 < b /\ b < 200
    [] n = 14 -> r > 150 /\ g > 150 /\ b < 70
    [] n = 15 -> Close(r, g, b) /\ r < 80
    [] n = 16 -> Close(r, g, b) /\ r < 150
    [] n = 17 -> Close(r, g, b)
    [] n = 18 -> 130 < r /\ r < 200 /\ 70 < g /\ g < 130 /\ b < 70

FirstMatch(r, g, b) ==
  LET hits == {n \in DOMAIN RuleNames : RuleMatches(n, r, g, b)}
  IN IF hits = {} THEN "mixed"
     ELSE RuleNames[CHOOSE n \in hits : \A m \in hits : n <= m]

\* The name the color sentence of call i gives the one color of its input
NamedColor(i) == returned[i][2]

Example(i, r, g, b, name) ==
  LET c == colorsOf(passed[i])[1].color
  IN (c.red = r /\ c.green = g /\ c.blue = b) => NamedColor(i) = name

\* C6: getColorName returns a name for every triple, the name of the first
\* rule of the list that matches and "mixed" when none does; the examples of
\* the specification get the names it gives, and a triple within both the
\* orange and the gold thresholds is named orange.
C6_FirstMatchWins ==
  \A i \in DOMAIN returned :
    LET c == colorsOf(passed[i])[1].color
    IN /\ returned[i] = <<"The dominant colors in the image are ",
                          FirstMatch(c.red, c.green, c.blue), ". ">>
       /\ Example(i, 255, 0, 0, "red")
       /\ Example(i, 255, 255, 255, "white")
       /\ Example(i, 0, 0, 0, "black")
       /\ Example(i, 128, 128, 128, "gray")
       /\ Example(i, 160, 100, 40, "brown")
       /\ Example(i, 10, 250, 10, "green")
       /\ (RuleMatches(9, c.red, c.green, c.blue) /\ RuleMatches(14, c.red, c.green, c.blue))
            => NamedColor(i) = "orange"

\* A color within both the orange and the gold thresholds was named orange
C6_Witness ==
  \E i \in DOMAIN returned :
    LET c == colorsOf(passed[i])[1].color
    IN /\ RuleMatches(9, c.red, c.green, c.blue)
       /\ RuleMatches(14, c.red, c.green, c.blue)
       /\ NamedColor(i) = "orange"

----------------------------------------------------------------------------
(* The faces section on its own: calls on objects that hold up to MaxFaces  *)
(* faces, each of one of a few kinds.                                       *)

MaxFaces == 3

FaceKinds ==
  { [joyLikelihood |-> "LIKELY"],
    [joyLikelihood |-> "VERY_LIKELY", sorrowLikelihood |-> "LIKELY"],
    Face("POSSIBLE", "POSSIBLE", "POSSIBLE", "POSSIBLE"),
    Face("UNKNOWN", "UNLIKELY", "VERY_LIKELY", "LIKELY"),
    Face("VERY_LIKELY", "VERY_LIKELY", "LIKELY", "VERY_LIKELY"),
    Face("VERY_UNLIKELY", "LIKELY", "UNLIKELY", "POSSIBLE"),
    NoFields }

InitFaces ==
  /\ visionResponse \in
       { [faceAnnotations |-> faces] :
           faces \in UNION { [1..n -> FaceKinds] : n \in 0..MaxFaces } }
  /\ NoCalls
  /\ HandlerIdle
  /\ ClientIdle

SpecFaces == InitFaces /\ [][Next]_vars

Emotions == <<"joy", "sorrow", "anger", "surprise">>

NotCounted == {"UNKNOWN", "VERY_UNLIKELY", "UNLIKELY", "POSSIBLE"}

\* The faces that count toward an emotion: all but those whose likelihood
\* for it is missing or POSSIBLE or lower
Tally(faces, emotion) ==
  LET field == emotion \o "Likelihood"
  IN Len(faces)
       - Cardinality({k \in DOMAIN faces :
                        ~Has(faces[k], field) \/ faces[k][field] \in NotCounted})

ExpectedClause(emotion, tally) ==
  <<ToString(tally), " ", IF tally = 1 THEN "appears" ELSE "appear", " to be ",
    IF emotion = "joy" THEN "happy" ELSE emotion>>

RECURSIVE ExpectedClauses(_, _)
ExpectedClauses(faces, n) ==
  IF n > Len(Emotions) THEN <<>>
  ELSE LET tally == Tally(faces, Emotions[n])
           rest == ExpectedClauses(faces, n + 1)
       IN IF tally = 0 THEN rest
          ELSE IF rest = <<>> THEN ExpectedClause(Emotions[n], tally)
          ELSE ExpectedClause(Emotions[n], tally) \o <<", ">> \o rest

ExpectedCount(n) ==
  IF n = 1 THEN <<"There ", "is", " ", "1", " ", "person", " in the image", ". ">>
  ELSE <<"There ", "are", " ", ToString(n), " ", "people", " in the image", ". ">>

\* C7: for N >= 1 faces the count sentence says "is 1 person" or "are N
\* people"; each emotion's tally is the number of faces whose likelihood for
\* it is LIKELY or VERY_LIKELY, between 0 and N, the four tallied apart; the
\* clauses are those of the emotions with a positive tally in the order joy,
\* sorrow, anger, surprise, "appears" for a tally of 1, joy worded "happy".
C7_FaceSentences ==
  \A i \in DOMAIN returned :
    LET faces == passed[i].faceAnnotations
        clauses == ExpectedClauses(faces, 1)
    IN /\ \A n \in DOMAIN Emotions :
            Tally(faces, Emotions[n]) \in 0..Len(faces)
       /\ Len(faces) > 0 =>
            returned[i] = ExpectedCount(Len(faces))
                            \o (IF clauses = <<>> THEN <<>>
                                ELSE <<"Of these, ">> \o clauses \o <<". ">>)

\* The example of the specification: two faces, joy on both and sorrow on
\* the second, so the second face counts toward two emotions
C7_Witness ==
  \E i \in DOMAIN returned :
    /\ passed[i].faceAnnotations
         = << [joyLikelihood |-> "LIKELY"],
              [joyLikelihood |-> "VERY_LIKELY", sorrowLikelihood |-> "LIKELY"] >>
    /\ returned[i]
         = << "There ", "are", " ", "2", " ", "people", " in the image", ". ",
              "Of these, ", "2", " ", "appear", " to be ", "happy", ", ",
              "1", " ", "appears", " to be ", "sorrow", ". " >>

----------------------------------------------------------------------------
(* The objects section on its own: calls on objects that hold up to         *)
(* MaxObjects localized objects, their names differing in case or in word.  *)

MaxObjects == 3

ObjectNames == {"Dog", "dog", "Cat", "cat"}

InitObjects ==
  /\ visionResponse \in
       { [localizedObjectAnnotations |-> objects] :
           objects \in UNION { [1..n -> {[name |-> w] : w \in ObjectNames}] :
                                 n \in 0..MaxObjects } }
  /\ NoCalls
  /\ HandlerIdle
  /\ ClientIdle

SpecObjects == InitObjects /\ [][Next]_vars

\* The names among the objects, each once, in the order they first occur
RECURSIVE DistinctNames(_)
DistinctNames(objects) ==
  IF Len(objects) = 0 THEN <<>>
  ELSE LET later == DistinctNames(Tail(objects))
       IN <<objects[1].name>> \o SelectSeq(later, LAMBDA w : w # objects[1].name)

Occurrences(objects, w) == Cardinality({k \in DOMAIN objects : objects[k].name = w})

\* The phrase for a name as the claim words it: the name as given
PhraseAsGiven(objects, w) ==
  IF Occurrences(objects, w) > 1
    THEN <<ToString(Occurrences(objects, w)), " ", w, "s">>
    ELSE <<"a ", w>>

\* C8: the objects fragment holds one phrase per distinct name, "a {name}"
\* for a name that occurs once and "{count} {name}s" for one that occurs more
\* often, with the name as given, so that the phrases of distinct names differ.
C8_PhrasePerGivenName ==
  \A i \in DOMAIN returned :
    LET objects == passed[i].localizedObjectAnnotations
        names == DistinctNames(objects)
        phrases == [k \in DOMAIN names |-> PhraseAsGiven(objects, names[k])]
    IN Len(objects) > 0 =>
         returned[i] = <<"The image contains ">> \o join(phrases, ", ") \o <<". ">>

----------------------------------------------------------------------------
(* The text section on its own: calls on objects whose first text           *)
(* annotation is a run of letters around the length limit, with one         *)
(* character of it replaced by a line feed, a carriage return or a space,   *)
(* and with up to MaxPad white-space characters in front and behind.        *)

MaxPad == 1

MaxOver == 3

PadChars == {" ", "\n", "\t"}

Pads == UNION { [1..n -> PadChars] : n \in 0..MaxPad }

BodyLengths == {0, 1, 2} \cup ((TextLimit - 2)..(TextLimit + MaxOver))

Body(n, at, ch) == [k \in 1..n |-> IF k = at THEN ch ELSE "x"]

Texts ==
  { lead \o Body(n, at, ch) \o trail :
      lead \in Pads, trail \in Pads, n \in BodyLengths,
      at \in {0, 1, 2, TextLimit, TextLimit + 1}, ch \in {"\n", "\r", " "} }

TextResponses ==
  { [textAnnotations |-> <<[description |-> t]>> \o more] :
      t \in Texts, more \in {<<>>, <<[description |-> <<"y", "\n", "z">>]>>} }
  \cup { [textAnnotations |-> <<>>],
         [textAnnotations |-> <<NoFields, [description |-> <<"y">>]>>] }

InitText ==
  /\ visionResponse \in TextResponses
  /\ NoCalls
  /\ HandlerIdle
  /\ ClientIdle

SpecText == InitText /\ [][Next]_vars

\* The text with its line feeds turned into spaces, from its first to its
\* last character that is not white space
Cleaned(t) ==
  LET r == [k \in DOMAIN t |-> IF t[k] = "\n" THEN " " ELSE t[k]]
      solid == {k \in DOMAIN r : r[k] \notin WhiteSpace}
  IN IF solid = {} THEN <<>>
     ELSE SubSeq(r, CHOOSE k \in solid : \A m \in solid : k <= m,
                    CHOOSE k \in solid : \A m \in solid : k >= m)

\* The text of the first text annotation, empty when there is none
FirstText(obj) ==
  IF Len(obj.textAnnotations) > 0 /\ Has(obj.textAnnotations[1], "description")
    THEN obj.textAnnotations[1].description
    ELSE <<>>

\* What the returned text fragment holds between its quotation marks
Excerpt(description) == SubSeq(description, 3, Len(description) - 2)

\* C9: only the first text annotation is used, its newlines replaced by
\* spaces and trimmed; longer than 100 characters, the excerpt is its first
\* 100 characters and "...", otherwise all of it; the excerpt holds no
\* newline and at most 103 characters; an empty result emits no fragment.
C9_TextExcerpt ==
  \A i \in DOMAIN returned :
    LET clean == Cleaned(FirstText(passed[i]))
        excerpt == Excerpt(returned[i])
    IN IF clean = <<>> THEN returned[i] = NoDataFallback
       ELSE /\ returned[i][2] = "\""
            /\ returned[i][Len(returned[i]) - 1] = "\""
            /\ returned[i][Len(returned[i])] = ". "
            /\ Len(clean) > 100 => excerpt = SubSeq(clean, 1, 100) \o <<".", ".", ".">>
            /\ Len(clean) <= 100 => excerpt = clean
            /\ \A k \in DOMAIN excerpt : excerpt[k] # "\n"
            /\ Len(excerpt) <= 103

\* A text of more than 100 characters after trimming, with a newline inside
\* and a second annotation behind it, was cut to 100 characters and "..."
C9_Witness ==
  \E i \in DOMAIN returned :
    /\ Len(passed[i].textAnnotations) = 2
    /\ Len(Cleaned(FirstText(passed[i]))) > 100
    /\ \E k \in 2..100 : Cleaned(FirstText(passed[i]))[k] = " " /\ FirstText(passed[i])[k] = "\n"
    /\ Len(Excerpt(returned[i])) = 103

----------------------------------------------------------------------------
(* The HTTP handler.  One request; the handler runs from one await to the   *)
(* next in one step, and what the request and its environment turn out to   *)
(* be (method, form, file, key, vision API) is chosen when the handler      *)
(* reads it and kept in req.                                                *)

\* the vision response before the vision API has answered
NotReceived == [pending |-> TRUE]

\* res.status(code).json(body)
respond(code, body) == Append(sent, [status |-> code, body |-> body])

\* lines 148-152: the catch block of the handler
failed == respond(500, [error |-> "Failed to analyze image"])

\* the objects the vision API answers with in responses[0]
ApiResponses ==
  { l @@ o @@ c @@ q :
      l \in LabelShapes, o \in ObjectShapes, c \in ColorShapes, q \in QualityShapes }

InitHandler ==
  /\ visionResponse = NotReceived
  /\ NoCalls
  /\ HandlerIdle
  /\ ClientIdle

\* lines 33-36 with the return left out: the handler goes on after the 405
ReceiveNoReturn ==
  /\ hpc = "idle"
  /\ \E method \in {"POST", "GET"} :
       /\ req' = [method |-> method]
       /\ sent' = IF method # "POST"
                    THEN respond(405, [error |-> "Method not allowed"])
                    ELSE sent
       /\ hpc' = "parsing"
  /\ UNCHANGED tvars
  /\ UNCHANGED cvars

\* lines 29-49: the request arrives; the handler answers 405 or awaits form.parse
Receive ==
  /\ hpc = "idle"
  /\ \E method \in {"POST", "GET"} :
       /\ req' = [method |-> method]
       /\ IF method # "POST"
            THEN /\ sent' = respond(405, [error |-> "Method not allowed"])
                 /\ hpc' = "done"
            ELSE /\ sent' = sent
                 /\ hpc' = "parsing"
  /\ UNCHANGED tvars
  /\ UNCHANGED cvars

\* lines 44-124: form.parse calls back; the handler answers or awaits fetch
ParseDone ==
  /\ hpc = "parsing"
  /\ \E form \in {"image", "noImage", "tooLarge", "malformed"} :
       IF form \in {"tooLarge", "malformed"}
         THEN /\ req' = req @@ [form |-> form]
              /\ sent' = failed
              /\ hpc' = "done"
       ELSE IF form = "noImage"
         THEN /\ req' = req @@ [form |-> form]
              /\ sent' = respond(400, [error |-> "No image file provided"])
              /\ hpc' = "done"
       ELSE \E readable \in BOOLEAN :
              IF ~readable
                THEN /\ req' = req @@ [form |-> form, readable |-> FALSE]
                     /\ sent' = failed
                     /\ hpc' = "done"
              ELSE \E apiKey \in BOOLEAN :
                     /\ req' = req @@ [form |-> form, readable |-> TRUE, apiKey |-> apiKey]
                     /\ IF ~apiKey
                          THEN /\ sent' = respond(500, [error |-> "Server configuration error"])
                               /\ hpc' = "done"
                          ELSE /\ sent' = sent
                               /\ hpc' = "fetching"
  /\ UNCHANGED tvars
  /\ UNCHANGED cvars

\* lines 73-126: fetch settles; the handler answers or awaits visionResponse.json()
FetchDone ==
  /\ hpc = "fetching"
  /\ \E fetch \in {"ok", "notOk", "rejected"} :
       /\ req' = req @@ [fetch |-> fetch]
       /\ IF fetch = "rejected"
            THEN /\ sent' = failed
                 /\ hpc' = "done"
            ELSE /\ sent' = sent
                 /\ hpc' = "json"
  /\ UNCHANGED tvars
  /\ UNCHANGED cvars

\* lines 126-152: the body is parsed; the handler answers
JsonDone ==
  /\ hpc = "json"
  /\ hpc' = "done"
  /\ UNCHANGED cvars
  /\ \E json \in {"parsed", "rejected"} :
       IF json = "rejected" \/ req.fetch = "notOk"
         THEN /\ req' = req @@ [json |-> json]
              /\ sent' = failed
              /\ UNCHANGED tvars
       ELSE \E responses \in {"none", "empty", "one"} :
              IF responses = "none"
                THEN /\ req' = req @@ [json |-> json, responses |-> responses]
                     /\ sent' = failed
                     /\ UNCHANGED tvars
              ELSE \E first \in (IF responses = "one" THEN ApiResponses ELSE {Undefined}) :
                   \E unlinked \in BOOLEAN :
                     LET r == generateDescription(first)
                     IN /\ req' = req @@ [json |-> json, responses |-> responses,
                                          unlinked |-> unlinked]
                        /\ passed' = Append(passed, first)
                        /\ returned' = Append(returned, r.value)
                        /\ threw' = Append(threw, r.threw)
                        /\ visionResponse' = r.obj
                        /\ sent' = IF unlinked
                                     THEN respond(200, [description |-> r.value,
                                                        detailedAnalysis |-> r.obj])
                                     ELSE failed

HandlerNext == Receive \/ ParseDone \/ FetchDone \/ JsonDone

SpecHandler == InitHandler /\ [][HandlerNext]_vars

\* Something threw between the method check and the response
Threw(r) ==
  \/ Has(r, "readable") /\ ~r.readable
  \/ Has(r, "fetch") /\ r.fetch = "rejected"
  \/ Has(r, "json") /\ r.json = "rejected"
  \/ Has(r, "responses") /\ r.responses = "none"
  \/ Has(r, "unlinked") /\ ~r.unlinked

\* The status the claim gives each path
StatusOf(r) ==
  IF r.method # "POST" THEN 405
  ELSE IF r.form = "noImage" THEN 400
  ELSE IF r.form \in {"tooLarge", "malformed"} THEN 500
  ELSE IF Has(r, "apiKey") /\ ~r.apiKey THEN 500
  ELSE IF (Has(r, "fetch") /\ r.fetch = "notOk") \/ Threw(r) THEN 500
  ELSE 200

\* One response per request, with the status of its path
OneResponse ==
  /\ hpc # "done" => sent = <<>>
  /\ hpc = "done" =>
       /\ Len(sent) = 1
       /\ sent[1].status = StatusOf(req)
       /\ sent[1].status = 200 =>
            /\ Len(returned) = 1
            /\ sent[1].body.description = returned[1]

\* C10 as stated: one response per request with the status of its path, and
\* generateDescription called only on the path that answers 200, after the
\* vision API answered OK.
C10_CalledOnlyOn200 ==
  /\ OneResponse
  /\ returned # <<>> =>
       /\ req.fetch = "ok"
       /\ hpc = "done"
       /\ sent[1].status = 200

\* C10 amended: one response per request with the status of its path, and
\* generateDescription called only after the vision API answered OK, in a
\* request that answers 200, or 500 when removing the temporary file throws.
C10_CalledAfterOk ==
  /\ OneResponse
  /\ returned # <<>> =>
       /\ req.fetch = "ok"
       /\ hpc = "done"
       /\ \/ sent[1].status = 200
          \/ sent[1].status = 500 /\ ~req.unlinked

\* A request went all the way and was answered 200 with the description
\* generateDescription returned for the labels of the vision response
C10_Witness ==
  /\ hpc = "done"
  /\ Len(sent) = 1
  /\ sent[1].status = 200
  /\ req.fetch = "ok"
  /\ Len(returned) = 1
  /\ ~threw[1]
  /\ Has(passed[1], "labelAnnotations")
  /\ sent[1].body.description = returned[1]

----------------------------------------------------------------------------
(* The client: the ImageUploader component and the useImageAnalysis hook.   *)
(* A file reaches handleFile from the file input, which is disabled while   *)
(* isLoading, or from a drop on the drop zone, which is not; the FileReader *)
(* calls analyzeImage when it has loaded; each analyzeImage call runs from  *)
(* one await to the next in one step.                                       *)

MaxUploads == 3

Files ==
  { [name |-> "a.png", type |-> "image/png"],
    [name |-> "b.jpg", type |-> "image/jpeg"],
    [name |-> "notes.txt", type |-> "text/plain"] }

\* ImageUploader line 17: file.type.match('image.*') on the types of Files
isImage(file) == file.type \in {"image/png", "image/jpeg"}

\* what the server puts in data.description
Descriptions == {"The image shows cat. ", "The image shows dog. "}

\* what the server puts in errorData.error; "" when the body has none
ErrorBodies == {"Server configuration error", "Failed to analyze image", ""}

\* the message of the error a rejected fetch or json() throws; "" when it has none
RejectionMessages == {"Failed to fetch", ""}

\* a || b on strings
orElse(a, b) == IF a = "" THEN b ELSE a

\* ImageUploader lines 14-31: handleFile
handleFile(file) ==
  IF file = Undefined THEN uploader
  ELSE IF ~isImage(file) THEN uploader
  ELSE [uploader EXCEPT !.selectedImage = file.name, !.reading = Append(@, file)]

\* ImageUploader lines 9-12 and 69-76: the file input changes; it is disabled while isLoading
handleFileChange ==
  /\ ~hook.isLoading
  /\ Len(requests) + Len(uploader.reading) < MaxUploads
  /\ \E file \in Files \cup {Undefined} : uploader' = handleFile(file)
  /\ UNCHANGED <<hook, requests>>
  /\ UNCHANGED <<tvars, hvars>>

\* ImageUploader lines 33-42: a drag enters, moves over or leaves the drop zone
handleDrag ==
  /\ \E type \in {"dragenter", "dragover", "dragleave"} :
       uploader' = [uploader EXCEPT !.dragActive =
                      IF type \in {"dragenter", "dragover"} THEN TRUE
                      ELSE IF type = "dragleave" THEN FALSE
                      ELSE @]
  /\ UNCHANGED <<hook, requests>>
  /\ UNCHANGED <<tvars, hvars>>

\* ImageUploader lines 44-52: a file is dropped on the drop zone
handleDrop ==
  /\ Len(requests) + Len(uploader.reading) < MaxUploads
  /\ \E file \in Files \cup {Undefined} :
       uploader' = [handleFile(file) EXCEPT !.dragActive = FALSE]
  /\ UNCHANGED <<hook, requests>>
  /\ UNCHANGED <<tvars, hvars>>

\* ImageUploader lines 26-29, App lines 9-11, hook lines 9-25: a FileReader has
\* loaded; analyzeImage sets the three states and starts the fetch
readerLoaded ==
  /\ \E k \in DOMAIN uploader.reading :
       LET file == uploader.reading[k]
       IN /\ uploader' = [uploader EXCEPT
                            !.previewUrl = file.name,
                            !.reading = SubSeq(@, 1, k - 1) \o SubSeq(@, k + 1, Len(@))]
          /\ requests' = Append(requests, [file |-> file.name, pc |-> "fetch"])
          /\ hook' = [description |-> "", isLoading |-> TRUE, error |-> null]
  /\ UNCHANGED <<tvars, hvars>>

\* hook lines 38-44: catch and finally
caught(message) ==
  [hook EXCEPT !.error = orElse(message, "An error occurred while analyzing the image"),
               !.isLoading = FALSE]

\* hook lines 22-34 and 38-44: the fetch of request k settles
responseArrived ==
  /\ \E k \in DOMAIN requests :
       /\ requests[k].pc = "fetch"
       /\ \E outcome \in {"ok", "notOk", "rejected"} :
            IF outcome = "rejected"
              THEN \E message \in RejectionMessages :
                     /\ hook' = caught(message)
                     /\ requests' = [requests EXCEPT ![k] =
                                       [file |-> @.file, pc |-> "done", result |-> "failed",
                                        value |-> hook'.error]]
              ELSE /\ hook' = hook
                   /\ requests' = [requests EXCEPT ![k] =
                                     [file |-> @.file, pc |-> "json", ok |-> outcome = "ok"]]
  /\ UNCHANGED uploader
  /\ UNCHANGED <<tvars, hvars>>

\* hook lines 29-44: response.json() of request k settles
bodyParsed ==
  /\ \E k \in DOMAIN requests :
       /\ requests[k].pc = "json"
       /\ \E parsed \in BOOLEAN :
            IF ~parsed
              THEN \E message \in RejectionMessages :
                     /\ hook' = caught(message)
                     /\ requests' = [requests EXCEPT ![k] =
                                       [file |-> @.file, pc |-> "done", result |-> "failed",
                                        value |-> hook'.error]]
            ELSE IF ~requests[k].ok
              THEN \E body \in ErrorBodies :
                     /\ hook' = caught(orElse(body, "Failed to analyze image"))
                     /\ requests' = [requests EXCEPT ![k] =
                                       [file |-> @.file, pc |-> "done", result |-> "failed",
                                        value |-> hook'.error]]
            ELSE \E d \in Descriptions :
                   /\ hook' = [hook EXCEPT !.description = d, !.isLoading = FALSE]
                   /\ requests' = [requests EXCEPT ![k] =
                                     [file |-> @.file, pc |-> "done", result |-> "ok",
                                      value |-> d]]
  /\ UNCHANGED uploader
  /\ UNCHANGED <<tvars, hvars>>

InitClient ==
  /\ visionResponse = NotReceived
  /\ NoCalls
  /\ HandlerIdle
  /\ ClientIdle

ClientNext ==
  handleFileChange \/ handleDrag \/ handleDrop \/ readerLoaded \/ responseArrived \/ bodyParsed

SpecClient == InitClient /\ [][ClientNext]_vars

InFlight == {k \in DOMAIN requests : requests[k].pc # "done"}

\* C11: isLoading is true in every state in which an analyzeImage request is
\* in flight and false in every state in which none is.
C11_LoadingWhileInFlight ==
  hook.isLoading <=> InFlight # {}

\* C12: description and error are never both set, and once every started
\* request has completed the hook shows the outcome of the request started
\* last: its description and no error, or its message and no description.
C12_LastStartedShown ==
  /\ ~(hook.description # "" /\ hook.error # null)
  /\ (requests # <<>> /\ InFlight = {}) =>
       LET last == requests[Len(requests)]
       IN IF last.result = "ok"
            THEN hook.description = last.value /\ hook.error = null
            ELSE hook.error = last.value /\ hook.description = ""

====
